---- MODULE Spec2Model ----
(***************************************************************************)
(* Refresh pipeline of can-i-charge: the refresh-data endpoint, the        *)
(* smart-update endpoint, the daily cron driver, the change detector, the  *)
(* state and ZIP aggregators and the staging -> production promotion.      *)
(*                                                                         *)
(* Every request is a process; its awaits (database round trips, upstream  *)
(* fetches) are the points where another request may interleave.           *)
(***************************************************************************)
EXTENDS Integers, Sequences, FiniteSets, TLC

(***************************************************************************)
(* Bounds                                                                  *)
(***************************************************************************)
\* number of requests (refresh-data, smart-update, cron) ever started
MaxRequests == 2

\* ZIP codes per batch of processChangedZips (maxBatchSize, 100 in the
\* source), scaled to the ZIP universe of the model
MaxBatchSize == 1

\* the number of rateLimit calls of a behaviour
MaxCalls == 4

\* the last instant of the clock
MaxNow == 4

(***************************************************************************)
(* Fixtures: the upstream registry records the model draws payloads from   *)
(***************************************************************************)
Procs == {"p1", "p2"}

Z94110 == <<"9", "4", "1", "1", "0">>
Z89109 == <<"8", "9", "1", "0", "9">>

\* latitude and longitude are in units of 0.0001 degrees, relative to a
\* reference point
RawA == [ext |-> 1, state |-> "CA", zip |-> Z94110, dc |-> 8, l2 |-> 0, l1 |-> 0,
         conn |-> <<"TESLA">>, lat |-> 0, lon |-> 0]
RawB == [ext |-> 2, state |-> "NV", zip |-> Z89109, dc |-> 0, l2 |-> 4, l1 |-> 0,
         conn |-> <<"J1772">>, lat |-> 0, lon |-> 0]

RawStations == {RawA, RawB}

\* the states array of generateStateDataOptimized, cut down to the two
\* states the fixtures use
StateCodes == {"CA", "NV"}

\* what the stored procedure behind rpc('copy_staging_to_production') does:
\* the specification describes a rename of the table pairs, the name a copy
PromoteKinds == {"rename", "copy"}

AllLevels == {"states", "counties", "zips"}

(***************************************************************************)
(* Strings as sequences of characters                                      *)
(***************************************************************************)
RECURSIVE SplitDash(_)
\* zip.split('-')[0]
SplitDash(z) ==
    IF z = <<>> THEN <<>>
    ELSE IF Head(z) = "-" THEN <<>>
    ELSE <<Head(z)>> \o SplitDash(Tail(z))

RECURSIVE TrimLeft(_)
TrimLeft(z) ==
    IF z = <<>> THEN <<>>
    ELSE IF Head(z) = " " THEN TrimLeft(Tail(z))
    ELSE z

RECURSIVE Reverse(_)
Reverse(z) == IF z = <<>> THEN <<>> ELSE Reverse(Tail(z)) \o <<Head(z)>>

\* String.prototype.trim
Trim(z) == Reverse(TrimLeft(Reverse(TrimLeft(z))))

\* station.zip?.split('-')[0]?.trim()
cleanZip(z) == Trim(SplitDash(z))

(***************************************************************************)
(* data-processor.ts                                                       *)
(***************************************************************************)
SeqToSet(s) == {s[i] : i \in 1..Len(s)}

\* type.includes('DCFAST') || type.includes('TESLA') on the registry's
\* connector enumeration: only TESLA contains one of the two substrings
includesDCFastOrTesla(type) == type \in {"TESLA", "DCFAST"}

hasDCFast(raw) ==
    raw.dc > 0 \/ \E t \in SeqToSet(raw.conn) : includesDCFastOrTesla(t)

\* processNRELStation writing a level name the aggregators do not count
processNRELStationTypo(raw) ==
    LET lvl == IF hasDCFast(raw) THEN "dc_fast"
               ELSE IF raw.l2 > 0 THEN "level2"
               ELSE "level1"
        n == IF lvl = "dc_fast" THEN raw.dc
             ELSE IF lvl = "level2" THEN raw.l2
             ELSE raw.l1
    IN [state |-> raw.state, zip |-> raw.zip, lvl |-> lvl,
        ports |-> IF n = 0 THEN 1 ELSE n, conn |-> raw.conn,
        lat |-> raw.lat, lon |-> raw.lon]

processNRELStation(raw) ==
    LET lvl == IF hasDCFast(raw) THEN "dcfast"
               ELSE IF raw.l2 > 0 THEN "level2"
               ELSE "level1"
        n == IF lvl = "dcfast" THEN raw.dc
             ELSE IF lvl = "level2" THEN raw.l2
             ELSE raw.l1
    IN [state |-> raw.state, zip |-> raw.zip, lvl |-> lvl,
        ports |-> IF n = 0 THEN 1 ELSE n, conn |-> raw.conn,
        lat |-> raw.lat, lon |-> raw.lon]

\* a row of charging_stations(_staging): the processed record under the
\* identifier the database assigns at insert (the processed record carries
\* no identifier of its own); g is the number of the insert
StationRow(raw, g) ==
    LET s == processNRELStation(raw)
    IN [id |-> <<g, raw.ext>>, state |-> s.state, zip |-> s.zip, lvl |-> s.lvl,
        ports |-> s.ports, conn |-> s.conn, lat |-> s.lat, lon |-> s.lon]

StationRows(payload, g) == {StationRow(r, g) : r \in payload}

(***************************************************************************)
(* Scoring.  A JavaScript number is modelled as an exact fraction n/d with *)
(* d > 0 in lowest terms; the inputs of the model keep every intermediate  *)
(* value away from the places where binary floating point would round to   *)
(* the other side of a threshold.                                          *)
(***************************************************************************)
Abs(x) == IF x < 0 THEN -x ELSE x

RECURSIVE GCD(_, _)
GCD(a, b) == IF b = 0 THEN a ELSE GCD(b, a % b)

Rat(n, d) == LET g == GCD(Abs(n), d) IN [n |-> n \div g, d |-> d \div g]

RatInt(k) == [n |-> k, d |-> 1]

RatAdd(a, b) == Rat(a.n * b.d + b.n * a.d, a.d * b.d)

RatSub(a, b) == Rat(a.n * b.d - b.n * a.d, a.d * b.d)

RatMul(a, b) == Rat(a.n * b.n, a.d * b.d)

\* a / b for b > 0
RatDiv(a, b) == Rat(a.n * b.d, a.d * b.n)

RatLE(a, b) == a.n * b.d <= b.n * a.d

RatLT(a, b) == a.n * b.d < b.n * a.d

RatMin(a, b) == IF RatLE(a, b) THEN a ELSE b

RatMax(a, b) == IF RatLE(a, b) THEN b ELSE a

\* Math.round: the nearest integer, halves towards +infinity
Round(a) == (2 * a.n + a.d) \div (2 * a.d)

\* (weightedChargerCount / population) * 100000
chargersPerCapita(weighted, population) ==
    RatMul(RatDiv(weighted, RatInt(population)), RatInt(100000))

\* Math.max(0.5, Math.min(2.0, vmtPerCapita / 25))
trafficMultiplier(vmt) ==
    RatMax(Rat(1, 2), RatMin(RatInt(2), Rat(vmt, 25)))

\* lo + ((x - from) / width) * gain
Ramp(lo, x, from, width, gain) ==
    RatAdd(RatInt(lo),
           RatMul(RatDiv(RatSub(x, RatInt(from)), RatInt(width)), RatInt(gain)))

\* the if-chain of calculateFilteredScore without traffic data; T holds the
\* five thresholds, top the divisor of the highest band
legacyScore(cpc, T, top) ==
    IF RatLE(RatInt(T[1]), cpc)
    THEN RatAdd(RatInt(80),
                RatMin(RatMul(RatDiv(RatSub(cpc, RatInt(T[1])), RatInt(top)),
                              RatInt(20)),
                       RatInt(20)))
    ELSE IF RatLE(RatInt(T[2]), cpc) THEN Ramp(70, cpc, T[2], T[1] - T[2], 10)
    ELSE IF RatLE(RatInt(T[3]), cpc) THEN Ramp(55, cpc, T[3], T[2] - T[3], 15)
    ELSE IF RatLE(RatInt(T[4]), cpc) THEN Ramp(40, cpc, T[4], T[3] - T[4], 15)
    ELSE IF RatLE(RatInt(T[5]), cpc) THEN Ramp(25, cpc, T[5], T[4] - T[5], 15)
    ELSE RatMul(RatDiv(cpc, RatInt(T[5])), RatInt(25))

\* chargerScore of calculateFilteredScore with traffic data
chargerScore(adjusted, T) ==
    IF RatLE(RatInt(T[1]), adjusted) THEN RatInt(100)
    ELSE IF RatLE(RatInt(T[2]), adjusted) THEN Ramp(85, adjusted, T[2], T[1] - T[2], 15)
    ELSE IF RatLE(RatInt(T[3]), adjusted) THEN Ramp(65, adjusted, T[3], T[2] - T[3], 20)
    ELSE IF RatLE(RatInt(T[4]), adjusted) THEN Ramp(40, adjusted, T[4], T[3] - T[4], 25)
    ELSE IF RatLE(RatInt(T[5]), adjusted) THEN Ramp(20, adjusted, T[5], T[4] - T[5], 20)
    ELSE RatMul(RatDiv(adjusted, RatInt(T[5])), RatInt(20))

\* Math.round(Math.min(100, Math.max(0, score)))
Clamp100(score) == RatInt(Round(RatMin(RatInt(100), RatMax(RatInt(0), score))))

\* chargersPerCapita / trafficMultiplier and the thresholds it is held to
trafficChargerScore(weighted, population, vmt, isPortCount) ==
    chargerScore(RatDiv(chargersPerCapita(weighted, population), trafficMultiplier(vmt)),
                 IF isPortCount THEN <<300, 180, 105, 60, 30>>
                 ELSE <<100, 60, 35, 20, 10>>)

\* Math.min((population / 300000) * 100, 100)
populationDensityScore(population) ==
    RatMin(RatMul(Rat(population, 300000), RatInt(100)), RatInt(100))

\* calculateFilteredScore returning the charger score alone, without the
\* population density component
calculateFilteredScoreNoDensity(weighted, population, vmt, isPortCount) ==
    IF vmt = 0
    THEN Clamp100(IF isPortCount
                  THEN legacyScore(chargersPerCapita(weighted, population),
                                   <<200, 120, 75, 40, 20>>, 100)
                  ELSE legacyScore(chargersPerCapita(weighted, population),
                                   <<60, 40, 25, 15, 8>>, 40))
    ELSE Clamp100(trafficChargerScore(weighted, population, vmt, isPortCount))

\* calculateFilteredScore; vmt = 0 stands for an absent vmtPerCapita, which
\* the test !vmtPerCapita does not tell from 0
calculateFilteredScore(weighted, population, vmt, isPortCount) ==
    IF vmt = 0
    THEN Clamp100(IF isPortCount
                  THEN legacyScore(chargersPerCapita(weighted, population),
                                   <<200, 120, 75, 40, 20>>, 100)
                  ELSE legacyScore(chargersPerCapita(weighted, population),
                                   <<60, 40, 25, 15, 8>>, 40))
    ELSE Clamp100(RatAdd(
             RatMul(trafficChargerScore(weighted, population, vmt, isPortCount),
                    Rat(7, 10)),
             RatMul(populationDensityScore(population), Rat(3, 10))))

\* calculateOpportunityScore; vmt = 0 stands for an absent vmtPerCapita
calculateOpportunityScore(chargerCount, population, vmt) ==
    IF population < 10000
    THEN RatMin(RatInt(25), RatMul(Rat(population, 10000), RatInt(25)))
    ELSE LET cpc == chargersPerCapita(RatInt(chargerCount), population)
             m == IF vmt # 0 THEN trafficMultiplier(vmt) ELSE RatInt(1)
             base ==
                 IF RatLE(cpc, RatInt(5))
                 THEN RatAdd(RatInt(80),
                             RatMin(RatMul(RatDiv(Rat(population, 100000), RatInt(5)),
                                           RatInt(20)),
                                    RatInt(20)))
                 ELSE IF RatLE(cpc, RatInt(15))
                 THEN RatAdd(RatInt(60),
                             RatMul(RatDiv(RatSub(RatInt(15), cpc), RatInt(10)), RatInt(20)))
                 ELSE IF RatLE(cpc, RatInt(30))
                 THEN RatAdd(RatInt(40),
                             RatMul(RatDiv(RatSub(RatInt(30), cpc), RatInt(15)), RatInt(20)))
                 ELSE IF RatLE(cpc, RatInt(50))
                 THEN RatAdd(RatInt(20),
                             RatMul(RatDiv(RatSub(RatInt(50), cpc), RatInt(20)), RatInt(20)))
                 ELSE RatMax(RatInt(0),
                             RatSub(RatInt(20),
                                    RatMul(RatDiv(RatSub(cpc, RatInt(50)), RatInt(10)),
                                           RatInt(20))))
         IN Clamp100(RatMul(base, m))

\* calculateNeedScore of the scoring module; avgDistance = 0 stands for an
\* absent avgDistance
calculateNeedScore(population, chargerCount, avgDistance) ==
    LET populationFactor == Rat(population, 10000)
        chargerFactor == RatInt(chargerCount * 5)
        distancePenalty == IF avgDistance # 0
                           THEN RatMin(RatInt(avgDistance * 2), RatInt(20))
                           ELSE RatInt(0)
    IN RatMax(RatInt(0),
              RatMin(RatInt(100),
                     RatAdd(RatSub(populationFactor, chargerFactor), distancePenalty)))

\* the calculateNeedScore local to the ZIP aggregation module
calculateNeedScoreLocal(population, chargerCount) ==
    RatSub(RatAdd(Rat(population, 10000), RatMul(Rat(population, 100000), RatInt(2))),
           RatInt(chargerCount * 5))

\* calculateWeightedEVScore of the optimized aggregation module, the one the
\* state aggregator and processZipBatch store as ev_infrastructure_score
calculateWeightedEVScore(weighted, population) ==
    IF population = 0 THEN RatInt(0)
    ELSE LET perCapita == RatDiv(weighted, RatInt(population))
             baseScore == RatMin(RatInt(100), RatMul(perCapita, RatInt(50000)))
             countBonus == RatMin(RatInt(20), RatDiv(weighted, RatInt(10)))
         IN RatInt(Round(RatMin(RatInt(100), RatAdd(baseScore, countBonus))))

(***************************************************************************)
(* Aggregators.  A table is a set of rows.                                 *)
(***************************************************************************)
Count(S, lvl) == Cardinality({s \in S : s.lvl = lvl})

\* generateStateDataOptimized: one row for every entry of the states array,
\* counted over the station rows it was given
StateRows(stations) ==
    {[state |-> st,
      dcfast_count |-> Count({s \in stations : s.state = st}, "dcfast"),
      level2_count |-> Count({s \in stations : s.state = st}, "level2"),
      level1_count |-> Count({s \in stations : s.state = st}, "level1"),
      charger_count |-> Count({s \in stations : s.state = st}, "dcfast")
                        + Count({s \in stations : s.state = st}, "level2")
                        + Count({s \in stations : s.state = st}, "level1")]
     : st \in StateCodes}

\* the zipGroups of processZipBatch: keys `${cleanZip}-${state}` of the
\* stations whose cleaned ZIP has five characters
ZipKeys(stations) ==
    {<<cleanZip(s.zip), s.state>> : s \in {t \in stations : Len(cleanZip(t.zip)) = 5}}

ZipMembers(stations, key) ==
    {s \in stations : cleanZip(s.zip) = key[1] /\ s.state = key[2]}

\* the zipData rows of processZipBatch for the stations fetched for a batch
ZipRows(stations) ==
    {[zip_code |-> k[1], state |-> k[2],
      dcfast_count |-> Count(ZipMembers(stations, k), "dcfast"),
      level2_count |-> Count(ZipMembers(stations, k), "level2"),
      level1_count |-> Count(ZipMembers(stations, k), "level1"),
      charger_count |-> Cardinality(ZipMembers(stations, k))]
     : k \in ZipKeys(stations)}

\* outcomes of one processZipBatch call: it returns, the station query
\* reports an error, or the insert reports an error (after the delete)
BatchOutcomes == {"ok", "fetchError", "insertError"}

\* .from('charging_stations').select().in('zip', zipCodes)
BatchStations(stations, batch) == {s \in stations : s.zip \in SeqToSet(batch)}

\* the ZIP table after processZipBatch(batch) with the given outcome
processZipBatchTable(table, stations, batch, outcome) ==
    LET rows == ZipRows(BatchStations(stations, batch))
        kept == {r \in table : r.zip_code \notin {x.zip_code : x \in rows}}
    IN IF outcome = "fetchError" \/ BatchStations(stations, batch) = {} \/ rows = {}
       THEN table
       ELSE IF outcome = "insertError" THEN kept
       ELSE kept \cup rows

\* the number processZipBatch returns (zipData.length), 0 when it throws
processZipBatchCount(stations, batch, outcome) ==
    IF outcome # "ok" THEN 0
    ELSE Cardinality(ZipRows(BatchStations(stations, batch)))

\* zipArray.slice(i, i + maxBatchSize) for i = 0, maxBatchSize, ...
RECURSIVE Batches(_, _)
Batches(zipArray, size) ==
    IF zipArray = <<>> THEN <<>>
    ELSE IF Len(zipArray) <= size THEN <<zipArray>>
    ELSE <<SubSeq(zipArray, 1, size)>>
         \o Batches(SubSeq(zipArray, size + 1, Len(zipArray)), size)

\* the loop of processChangedZips over the batches from index i on:
\* a failed batch is logged and the loop goes on
RECURSIVE processChangedZipsFrom(_, _, _, _, _)
processChangedZipsFrom(table, stations, batches, outcomes, i) ==
    IF i > Len(batches) THEN [table |-> table, processed |-> 0]
    ELSE LET rest == processChangedZipsFrom(
                         processZipBatchTable(table, stations, batches[i], outcomes[i]),
                         stations, batches, outcomes, i + 1)
         IN [table |-> rest.table,
             processed |-> rest.processed
                           + processZipBatchCount(stations, batches[i], outcomes[i])]

\* calculateZipCompletion: rows of zip_level_data_staging whose zip_code is
\* one of the affected ZIPs; a failed count query contributes nothing
calculateZipCompletion(affected, stagingZips, queryOk) ==
    LET completed == IF queryOk
                     THEN Cardinality({r \in stagingZips : r.zip_code \in affected})
                     ELSE 0
    IN [total_affected |-> Cardinality(affected),
        completed |-> completed,
        remaining |-> Cardinality(affected) - completed,
        is_complete |-> (Cardinality(affected) - completed = 0)]

(***************************************************************************)
(* change-detector.ts                                                      *)
(***************************************************************************)
Ids(stations) == {s.id : s \in stations}

ById(stations, id) == CHOOSE s \in stations : s.id = id

\* 0.001 degrees, in units of 0.0001 degrees
MovedSignificantly == 10

\* JSON.stringify of the two connector arrays compares them element by
\* element, in their order
hasSignificantChanges(old, new) ==
    \/ old.lvl # new.lvl
    \/ old.conn # new.conn
    \/ Abs(old.lat - new.lat) > MovedSignificantly
    \/ Abs(old.lon - new.lon) > MovedSignificantly
    \/ old.state # new.state
    \/ old.zip # new.zip

Added(current, previous) == {s \in current : s.id \notin Ids(previous)}

\* Removed comparing whole rows instead of identifiers
RemovedByRow(current, previous) == {s \in previous : s \notin current}

Removed(current, previous) == {s \in previous : s.id \notin Ids(current)}

Modified(current, previous) ==
    {s \in current : s.id \in Ids(previous)
                     /\ hasSignificantChanges(ById(previous, s.id), s)}

\* detectChanges marking the regions of the current rows alone
detectChangesCurrentRegions(current, previous) ==
    LET added == Added(current, previous)
        removed == Removed(current, previous)
        modified == Modified(current, previous)
    IN [states |-> {s.state : s \in added \cup removed \cup modified},
        counties |-> {},
        zips |-> {s.zip : s \in {t \in added \cup removed \cup modified : t.zip # <<>>}},
        total_changes |-> Cardinality(added) + Cardinality(removed)
                          + Cardinality(modified)]

\* ChangeDetector.detectChanges on the two station sets it read; the
\* counties set is created empty and nothing adds to it
detectChanges(current, previous) ==
    LET added == Added(current, previous)
        removed == Removed(current, previous)
        modified == Modified(current, previous)
        old == {ById(previous, s.id) : s \in modified}
    IN [states |-> {s.state : s \in added \cup removed \cup modified}
                   \cup {o.state : o \in old},
        counties |-> {},
        zips |-> {s.zip : s \in {t \in added \cup removed \cup modified : t.zip # <<>>}}
                 \cup {o.zip : o \in {t \in old : t.zip # <<>>}},
        total_changes |-> Cardinality(added) + Cardinality(removed)
                          + Cardinality(modified)]

NoChanges == [states |-> {}, counties |-> {}, zips |-> {}, total_changes |-> 0]

(***************************************************************************)
(* State                                                                   *)
(***************************************************************************)
VARIABLES
    serving,      \* charging_stations, state_level_data, county_level_data, zip_level_data
    staging,      \* the four *_staging tables
    gen,          \* number of station inserts so far (source of fresh row ids)
    procs,        \* the requests in flight, one record per process
    promoteKind,  \* what the promotion procedure does, fixed for a behaviour
    started,      \* number of requests started
    hist,         \* history of the cycles: observations, read by no action
    call,         \* the last call of a library function: arguments and result
    popCache,     \* the population_cache table
    rateLimitMap, \* the rate limiter's entry of each id
    now,          \* Date.now()
    results       \* history: the results of the rateLimit calls so far

vars == <<serving, staging, gen, procs, promoteKind, started, hist, call, popCache,
          rateLimitMap, now, results>>

\* the variables of the rate limiter
limiter == <<rateLimitMap, now, results>>

\* the variables of the refresh pipeline
pipeline == <<serving, staging, gen, procs, promoteKind, started, hist>>

EmptyTables == [stations |-> {}, states |-> {}, counties |-> {}, zips |-> {}]

\* the zip_completion a result starts with (is_complete: true)
InitialCompletion ==
    [total_affected |-> 0, completed |-> 0, remaining |-> 0, is_complete |-> TRUE]

\* a process slot with no request; log and wrote are history of the request:
\* the steps it has taken, and whether one of them changed a serving table
IdleProc ==
    [kind |-> "none", pc |-> "idle", payload |-> {}, levels |-> {},
     useStaging |-> TRUE, current |-> {}, changes |-> NoChanges, inserted |-> 0,
     states_generated |-> 0,
     states_processed |-> 0, counties_processed |-> 0, zips_processed |-> 0,
     zip_completion |-> InitialCompletion, status |-> 0, message |-> "",
     swap_performed |-> FALSE, log |-> <<>>, wrote |-> FALSE,
     stagingAtInsert |-> 0, servingAtInsert |-> 0]

\* county_level_data rows as the county generator writes them: one row per
\* county of the topology, here one county per state
CountyRows(stations) ==
    {[county_name |-> st, state |-> st,
      dcfast_count |-> Count({s \in stations : s.state = st}, "dcfast"),
      level2_count |-> Count({s \in stations : s.state = st}, "level2"),
      level1_count |-> Count({s \in stations : s.state = st}, "level1"),
      charger_count |-> Count({s \in stations : s.state = st}, "dcfast")
                        + Count({s \in stations : s.state = st}, "level2")
                        + Count({s \in stations : s.state = st}, "level1")]
     : st \in StateCodes}

\* a database as the generators leave it for a station set
Populated(payload) ==
    [stations |-> StationRows(payload, 0),
     states |-> StateRows(StationRows(payload, 0)),
     counties |-> CountyRows(StationRows(payload, 0)),
     zips |-> ZipRows(StationRows(payload, 0))]

\* what a request was started with and what the registry sent it
Input(r) == [kind |-> r.kind, payload |-> r.payload, levels |-> r.levels,
             useStaging |-> r.useStaging]

\* no cycle has ended yet
InitialHist ==
    [pending |-> FALSE, goodAge |-> -1, goodInput |-> Input(IdleProc),
     goodContent |-> EmptyTables]

\* no library function has been called
NoCall == [fn |-> "none", args |-> <<>>, result |-> <<>>]

\* the keys of population_cache the model uses: (region_type, region_code)
CacheKeys == {<<"state", "CA">>, <<"county", "06-075">>}

\* no row for the key
NoEntry == [present |-> FALSE, population |-> 0, expired |-> FALSE]

\* the ids of the rate limiter: an endpoint prefix and a client address
ClientIds == {"ev-score-10.0.0.1", "search-10.0.0.2"}

\* the limit the calls of an id pass, the same at every call
limitOf(id) == IF id = "ev-score-10.0.0.1" THEN 2 ELSE 1

\* the duration the calls pass, in ticks of the clock
Duration == 2

\* rateLimitMap.get(id) is undefined
NoWindow == [present |-> FALSE, count |-> 0, resetTime |-> 0]

\* nothing has called the rate limiter
InitLimiter ==
    /\ rateLimitMap = [id \in ClientIds |-> NoWindow]
    /\ now = 0
    /\ results = <<>>

Init ==
    /\ InitLimiter
    /\ call = NoCall
    /\ popCache = [k \in CacheKeys |-> NoEntry]
    /\ \E seed \in {{}, RawStations} : serving = IF seed = {} THEN EmptyTables
                                                 ELSE Populated(seed)
    /\ staging = EmptyTables
    /\ gen = 0
    /\ procs = [p \in Procs |-> IdleProc]
    /\ promoteKind \in PromoteKinds
    /\ started = 0
    /\ hist = InitialHist

(***************************************************************************)
(* Helpers of the actions                                                  *)
(***************************************************************************)
LevelChoices == {AllLevels, {"states"}, {"zips"}}

RECURSIVE Perms(_)
\* the orders Array.from(changedZips) may have
Perms(S) ==
    IF S = {} THEN {<<>>}
    ELSE UNION {{<<x>> \o q : q \in Perms(S \ {x})} : x \in S}

\* rpc('copy_staging_to_production'), serving side
PromotedServing(kind, srv, stg) == stg

\* rpc('copy_staging_to_production'), staging side
PromotedStaging(kind, srv, stg) == IF kind = "rename" THEN srv ELSE stg

\* process p's record after a step that took it to pc with the given changes
Step(p, fields) == [procs EXCEPT ![p] = fields]

\* the response of the request, by kind: the refresh-data or smart-update
\* handler answers httpStatus, the cron driver answers cronStatus
Respond(r, httpStatus, cronStatus, msg) ==
    [r EXCEPT !.pc = "done",
              !.status = IF r.kind = "cron" THEN cronStatus ELSE httpStatus,
              !.message = msg]

(***************************************************************************)
(* Requests                                                                *)
(***************************************************************************)
\* a request arrives: POST /api/refresh-data, POST /api/smart-update with a
\* body, or GET /api/cron/daily-refresh
Begin(p) ==
    /\ started' = started + 1
    /\ \/ \E k \in {"refresh", "cron"} :
            procs' = Step(p, [IdleProc EXCEPT !.kind = k, !.pc = "r_fetch",
                                              !.levels = AllLevels])
       \/ \E lv \in LevelChoices, us \in BOOLEAN :
            procs' = Step(p, [IdleProc EXCEPT !.kind = "smart", !.pc = "s_detect",
                                              !.levels = lv, !.useStaging = us])
    /\ UNCHANGED <<serving, staging, gen, promoteKind>>

\* the scheduler's ticks and the admin's triggers, one after the other: a
\* request arrives when the one before it has been answered
Start(p) ==
    /\ p = "p1"
    /\ procs[p].pc \in {"idle", "done"}
    /\ started < MaxRequests
    /\ Begin(p)

(***************************************************************************)
(* refresh-data POST                                                       *)
(***************************************************************************)
\* steps 1 and 2: fetch the registry and process the records; a missing API
\* key, a non-2xx answer or a thrown fetch ends the request in the catch block
Fetch(p) ==
    /\ procs[p].pc = "r_fetch"
    /\ \/ \E payload \in SUBSET RawStations :
            procs' = Step(p, [procs[p] EXCEPT !.pc = "r_clear", !.payload = payload])
       \/ procs' = Step(p, [Respond(procs[p], 500, 500, "Failed to refresh data")
                               EXCEPT !.log = Append(@, "registry-failed")])
    /\ UNCHANGED <<serving, staging, gen, promoteKind, started>>

\* step 3: clearTable on the staging tables; clearTable reports a failure by
\* returning false, which the handler does not look at
ClearStaging(p) ==
    /\ procs[p].pc = "r_clear"
    /\ \E stationsCleared \in BOOLEAN :
            staging' = [EmptyTables EXCEPT
                          !.stations = IF stationsCleared THEN {}
                                       ELSE staging.stations]
    /\ procs' = Step(p, [procs[p] EXCEPT !.pc = "r_insert"])
    /\ UNCHANGED <<serving, gen, promoteKind, started>>

\* step 4: batchInsertStations(processedStations, 1000, true); the payloads
\* of the model fit one batch, which is inserted or reports an error
Insert(p) ==
    /\ procs[p].pc = "r_insert"
    /\ \/ /\ staging' = [staging EXCEPT
                           !.stations = @ \cup StationRows(procs[p].payload, gen + 1)]
          /\ gen' = IF procs[p].payload = {} THEN gen ELSE gen + 1
          /\ procs' = Step(p, [procs[p] EXCEPT
                                 !.pc = "r_state",
                                 !.inserted = Cardinality(procs[p].payload),
                                 !.stagingAtInsert = Cardinality(staging'.stations),
                                 !.servingAtInsert = Cardinality(serving.stations),
                                 !.log = Append(@, "ingest")])
       \/ /\ procs[p].payload # {}
          /\ procs' = Step(p, Respond(procs[p], 500, 500, "Failed to refresh data"))
          /\ UNCHANGED <<staging, gen>>
    /\ UNCHANGED <<serving, promoteKind, started>>

\* step 5: generateStateDataOptimized(true): clears state_level_data_staging,
\* reads charging_stations, inserts the rows; an error of the read or of the
\* insert is thrown after the clear
RefreshAggregate(p) ==
    /\ procs[p].pc = "r_state"
    /\ \/ /\ staging' = [staging EXCEPT !.states = StateRows(serving.stations)]
          /\ procs' = Step(p, [procs[p] EXCEPT
                                 !.pc = "r_swap",
                                 !.states_generated = Cardinality(StateCodes),
                                 !.log = Append(@, "aggregate")])
       \/ /\ staging' = [staging EXCEPT !.states = {}]
          /\ procs' = Step(p, Respond(procs[p], 500, 500, "Failed to refresh data"))
    /\ UNCHANGED <<serving, gen, promoteKind, started>>

\* step 6: swapStagingToProduction; on success refresh-data answers 200 and
\* the cron driver goes on to the smart update with all levels
RefreshSwap(p) ==
    /\ procs[p].pc = "r_swap"
    /\ \/ /\ serving' = PromotedServing(promoteKind, serving, staging)
          /\ staging' = PromotedStaging(promoteKind, serving, staging)
          /\ procs' = Step(p,
                IF procs[p].kind = "cron"
                THEN [procs[p] EXCEPT !.pc = "s_detect",
                                      !.log = Append(@, "promote"),
                                      !.wrote = @ \/ serving' # serving]
                ELSE [Respond(procs[p], 200, 200, "refreshed") EXCEPT
                                      !.swap_performed = TRUE,
                                      !.log = Append(@, "promote"),
                                      !.wrote = @ \/ serving' # serving])
       \/ /\ procs' = Step(p, [Respond(procs[p], 500, 500, "Failed to refresh data")
                                 EXCEPT !.log = Append(@, "promote-failed")])
          /\ UNCHANGED <<serving, staging>>
    /\ UNCHANGED <<gen, promoteKind, started>>

(***************************************************************************)
(* smart-update POST: SmartAggregator.performIncrementalUpdate, then the    *)
(* route's decision to promote                                             *)
(***************************************************************************)
\* the table set the aggregators of a request write
Target(p) == IF procs[p].useStaging THEN staging ELSE serving

\* step 1, first query of ChangeDetector.detectChanges(useStaging): the
\* current stations, read from the staging table or, without staging, from
\* charging_stations; a query error is thrown and caught by
\* performIncrementalUpdate, which returns success: false
DetectReadCurrent(p) ==
    /\ procs[p].pc = "s_detect"
    /\ \/ procs' = Step(p, [procs[p] EXCEPT
                              !.pc = "s_previous",
                              !.current = IF procs[p].useStaging THEN staging.stations
                                          ELSE serving.stations])
       \/ procs' = Step(p, Respond(procs[p], 500, 207, "Smart update failed"))
    /\ UNCHANGED <<serving, staging, gen, promoteKind, started>>

\* Detect without the early return of performIncrementalUpdate on
\* total_changes === 0: the update goes on to the aggregation steps
DetectNoEarlyReturn(p) ==
    /\ procs[p].pc = "s_previous"
    /\ \/ LET changes == detectChanges(procs[p].current, serving.stations)
          IN procs' = Step(p, [procs[p] EXCEPT !.pc = "s_states", !.current = {},
                                               !.changes = changes,
                                               !.log = Append(@, "detect")])
       \/ procs' = Step(p, [Respond(procs[p], 500, 207, "Smart update failed")
                               EXCEPT !.current = {}])
    /\ UNCHANGED <<serving, staging, gen, promoteKind, started>>

\* step 1, second query of detectChanges: the previous stations, always read
\* from charging_stations; then the comparison, and the early return of
\* performIncrementalUpdate when there is no change
Detect(p) ==
    /\ procs[p].pc = "s_previous"
    /\ \/ LET changes == detectChanges(procs[p].current, serving.stations)
          IN procs' = Step(p,
                IF changes.total_changes = 0
                THEN [Respond(procs[p], 200, 200,
                              "No changes detected - aggregation skipped")
                        EXCEPT !.current = {}, !.changes = changes,
                               !.log = Append(@, "detect")]
                ELSE [procs[p] EXCEPT !.pc = "s_states", !.current = {},
                                      !.changes = changes,
                                      !.log = Append(@, "detect")])
       \/ procs' = Step(p, [Respond(procs[p], 500, 207, "Smart update failed")
                               EXCEPT !.current = {}])
    /\ UNCHANGED <<serving, staging, gen, promoteKind, started>>

\* step 2, states and counties: processChangedStates regenerates every state
\* row with generateStateDataOptimized(useStaging); changes.counties is
\* empty, so processChangedCounties is never reached
SmartStates(p) ==
    /\ procs[p].pc = "s_states"
    /\ IF "states" \in procs[p].levels /\ procs[p].changes.states # {}
       THEN \/ /\ IF procs[p].useStaging
                  THEN /\ staging' = [staging EXCEPT
                                        !.states = StateRows(serving.stations)]
                       /\ UNCHANGED serving
                  ELSE /\ serving' = [serving EXCEPT
                                        !.states = StateRows(serving.stations)]
                       /\ UNCHANGED staging
               /\ procs' = Step(p, [procs[p] EXCEPT
                                      !.pc = "s_zips",
                                      !.states_processed = Cardinality(StateCodes),
                                      !.log = Append(@, "aggregate"),
                                      !.wrote = @ \/ serving' # serving])
            \/ /\ IF procs[p].useStaging
                  THEN staging' = [staging EXCEPT !.states = {}] /\ UNCHANGED serving
                  ELSE serving' = [serving EXCEPT !.states = {}] /\ UNCHANGED staging
               /\ procs' = Step(p, [Respond(procs[p], 500, 207, "Smart update failed")
                                      EXCEPT !.wrote = @ \/ serving' # serving])
       ELSE /\ procs' = Step(p, [procs[p] EXCEPT !.pc = "s_zips"])
            /\ UNCHANGED <<serving, staging>>
    /\ UNCHANGED <<gen, promoteKind, started>>

\* step 2, zips: processChangedZips over the batches of the affected ZIPs,
\* then calculateZipCompletion
SmartZips(p) ==
    /\ procs[p].pc = "s_zips"
    /\ IF "zips" \in procs[p].levels /\ procs[p].changes.zips # {}
       THEN \E order \in Perms(procs[p].changes.zips), queryOk \in BOOLEAN :
            LET batches == Batches(order, MaxBatchSize)
            IN \E outcomes \in [1..Len(batches) -> BatchOutcomes] :
               LET res == processChangedZipsFrom(Target(p).zips, serving.stations,
                                                 batches, outcomes, 1)
                   stagingZips == IF procs[p].useStaging THEN res.table
                                  ELSE staging.zips
                   completion == calculateZipCompletion(procs[p].changes.zips,
                                                        stagingZips, queryOk)
               IN /\ IF procs[p].useStaging
                     THEN /\ staging' = [staging EXCEPT !.zips = res.table]
                          /\ UNCHANGED serving
                     ELSE /\ serving' = [serving EXCEPT !.zips = res.table]
                          /\ UNCHANGED staging
                  /\ procs' = Step(p, [procs[p] EXCEPT
                        !.pc = "s_swap",
                        !.zips_processed = res.processed,
                        !.zip_completion = completion,
                        !.log = Append(@, IF completion.is_complete
                                          THEN "zips-complete" ELSE "zips-partial"),
                        !.wrote = @ \/ serving' # serving])
       ELSE /\ procs' = Step(p, [procs[p] EXCEPT !.pc = "s_swap"])
            /\ UNCHANGED <<serving, staging>>
    /\ UNCHANGED <<gen, promoteKind, started>>

\* the route after performIncrementalUpdate returned success with changes:
\* with useStaging it answers "in progress" while the ZIP completion is not
\* complete and otherwise calls swapStagingToProduction
SmartSwap(p) ==
    /\ procs[p].pc = "s_swap"
    /\ IF procs[p].useStaging /\ procs[p].changes.total_changes > 0
       THEN IF ~procs[p].zip_completion.is_complete
            THEN /\ procs' = Step(p, Respond(procs[p], 200, 200,
                                             "Smart update in progress"))
                 /\ UNCHANGED <<serving, staging>>
            ELSE \/ /\ serving' = PromotedServing(promoteKind, serving, staging)
                    /\ staging' = PromotedStaging(promoteKind, serving, staging)
                    /\ procs' = Step(p,
                          [Respond(procs[p], 200, 200,
                                   "Smart incremental update completed successfully")
                             EXCEPT !.swap_performed = TRUE,
                                    !.log = Append(@, "promote"),
                                    !.wrote = @ \/ serving' # serving])
                 \/ /\ procs' = Step(p,
                          [Respond(procs[p], 500, 207,
                                   "Smart update completed but failed to swap to production")
                             EXCEPT !.log = Append(@, "promote-failed")])
                    /\ UNCHANGED <<serving, staging>>
       ELSE /\ procs' = Step(p, Respond(procs[p], 200, 200,
                                        "Smart incremental update completed successfully"))
            /\ UNCHANGED <<serving, staging>>
    /\ UNCHANGED <<gen, promoteKind, started>>

\* the contents of a table set: the station rows without the identifiers
\* the database assigned, the aggregate rows as they are
Content(tables) ==
    [tables EXCEPT !.stations = {[state |-> x.state, zip |-> x.zip, lvl |-> x.lvl,
                                  ports |-> x.ports, conn |-> x.conn,
                                  lat |-> x.lat, lon |-> x.lon] : x \in @}]

\* a step in which a promotion call succeeded
PromoteStep ==
    \E p \in Procs : /\ procs[p].pc \in {"r_swap", "s_swap"}
                     /\ procs'[p].log = Append(procs[p].log, "promote")

\* the requests answered in a step
Finished == {p \in Procs : procs[p].pc \notin {"idle", "done"} /\ procs'[p].pc = "done"}

\* a cron cycle or a smart update answered 200 whose ZIP sub-pipeline
\* reported complete and whose promotion succeeded
GoodCycle(r) ==
    /\ r.kind \in {"cron", "smart"} /\ r.status = 200 /\ r.swap_performed
    /\ \E i \in 1..Len(r.log) : r.log[i] = "zips-complete"

\* hist after a step: pending is set by a request that ends with its ZIP
\* completion incomplete and reset by a promotion; goodAge counts the
\* requests started since the last good cycle
Observe ==
    hist' =
      [pending |->
          IF \E p \in Finished : procs'[p].message = "Smart update in progress"
          THEN TRUE
          ELSE IF PromoteStep THEN FALSE ELSE hist.pending,
       goodAge |->
          IF \E p \in Finished : GoodCycle(procs'[p]) THEN 0
          ELSE IF started' # started /\ hist.goodAge \in {0, 1} THEN hist.goodAge + 1
          ELSE hist.goodAge,
       goodInput |->
          IF \E p \in Finished : GoodCycle(procs'[p])
          THEN Input(procs'[CHOOSE p \in Finished : GoodCycle(procs'[p])])
          ELSE hist.goodInput,
       goodContent |->
          IF \E p \in Finished : GoodCycle(procs'[p])
          THEN Content(serving')
          ELSE hist.goodContent]

Next ==
    /\ \E p \in Procs :
        \/ Start(p)
        \/ Fetch(p)
        \/ ClearStaging(p)
        \/ Insert(p)
        \/ RefreshAggregate(p)
        \/ RefreshSwap(p)
        \/ DetectReadCurrent(p)
        \/ Detect(p)
        \/ SmartStates(p)
        \/ SmartZips(p)
        \/ SmartSwap(p)
    /\ Observe
    /\ UNCHANGED <<call, popCache>>
    /\ UNCHANGED limiter

Spec == Init /\ [][Next]_vars

\* the cron driver's cycle (p1) and a refresh-data request of the admin page
\* (p2) arriving at any time: nothing in the handlers looks at whether
\* another request is running
StartConcurrent(p) ==
    /\ procs[p].pc = "idle"
    /\ started' = started + 1
    /\ procs' = Step(p, [IdleProc EXCEPT !.kind = IF p = "p1" THEN "cron" ELSE "refresh",
                                         !.pc = "r_fetch", !.levels = AllLevels])
    /\ UNCHANGED <<serving, staging, gen, promoteKind>>

NextConcurrent ==
    /\ \E p \in Procs :
        \/ StartConcurrent(p)
        \/ Fetch(p)
        \/ ClearStaging(p)
        \/ Insert(p)
        \/ RefreshAggregate(p)
        \/ RefreshSwap(p)
        \/ DetectReadCurrent(p)
        \/ Detect(p)
        \/ SmartStates(p)
        \/ SmartZips(p)
        \/ SmartSwap(p)
    /\ Observe
    /\ UNCHANGED <<call, popCache>>
    /\ UNCHANGED limiter

SpecConcurrent == Init /\ [][NextConcurrent]_vars

\* a smart-update request with any body (p1) and a refresh-data request (p2)
\* arriving at any time
StartSmartConcurrent(p) ==
    /\ procs[p].pc = "idle"
    /\ started' = started + 1
    /\ IF p = "p1"
       THEN \E lv \in LevelChoices, us \in BOOLEAN :
              procs' = Step(p, [IdleProc EXCEPT !.kind = "smart", !.pc = "s_detect",
                                                !.levels = lv, !.useStaging = us])
       ELSE procs' = Step(p, [IdleProc EXCEPT !.kind = "refresh", !.pc = "r_fetch",
                                              !.levels = AllLevels])
    /\ UNCHANGED <<serving, staging, gen, promoteKind>>

NextSmartConcurrent ==
    /\ \E p \in Procs :
        \/ StartSmartConcurrent(p)
        \/ Fetch(p)
        \/ ClearStaging(p)
        \/ Insert(p)
        \/ RefreshAggregate(p)
        \/ RefreshSwap(p)
        \/ DetectReadCurrent(p)
        \/ Detect(p)
        \/ SmartStates(p)
        \/ SmartZips(p)
        \/ SmartSwap(p)
    /\ Observe
    /\ UNCHANGED <<call, popCache>>
    /\ UNCHANGED limiter

SpecSmartConcurrent == Init /\ [][NextSmartConcurrent]_vars

(***************************************************************************)
(* Population lookups with the population_cache table                      *)
(***************************************************************************)
\* getStatePopulationEstimate, cut down to the states of the model
getStatePopulationEstimate(stateCode) ==
    CASE stateCode = "CA" -> 39538223
      [] stateCode = "NV" -> 3104614
      [] OTHER -> 1000000

estimateCountyPopulation == 50000

\* the population cells a census answer may carry in its data row, as
\* parseInt reads them: a count, zero, and the census marker of a missing
\* estimate
Cells == {39029342, 0, -666666666}

HeaderRow == [cell |-> 0, name |-> "NAME"]

\* the parsed bodies of a 200 answer: an empty array, the header row alone,
\* the header row and a data row
CensusPayloads ==
    {<<>>, <<HeaderRow>>} \cup {<<HeaderRow, [cell |-> c, name |-> "California"]>> : c \in Cells}

\* what the outbound request may come back with
CensusResponses ==
    {[kind |-> k, data |-> <<>>] : k \in {"non2xx", "timeout", "unparseable"}}
    \cup {[kind |-> "ok", data |-> d] : d \in CensusPayloads}

\* getPopulationFromCache: the row of the key when the query succeeds, a row
\* exists and fetched_at is within thirty days; null (hit FALSE) otherwise
getPopulationFromCache(cache, key, lookupOk) ==
    IF lookupOk /\ cache[key].present /\ ~cache[key].expired
    THEN [hit |-> TRUE, population |-> cache[key].population]
    ELSE [hit |-> FALSE, population |-> 0]

\* savePopulationToCache: an upsert of population and updated_at on the key;
\* fetched_at is not among the columns written, so an existing row keeps its
\* age; a failure of the upsert is swallowed
savePopulationToCache(cache, key, population, saved) ==
    IF saved
    THEN [cache EXCEPT ![key] = [present |-> TRUE, population |-> population,
                                 expired |-> IF @.present THEN @.expired ELSE FALSE]]
    ELSE cache

\* the body shared by fetchStatePopulation and fetchCountyPopulation
fetchCached(cache, key, estimate, lookupOk, response, saved) ==
    LET cached == getPopulationFromCache(cache, key, lookupOk)
    IN IF cached.hit
       THEN [value |-> cached.population, source |-> "cached", requested |-> FALSE,
             cache |-> cache]
       ELSE IF response.kind = "ok" /\ Len(response.data) > 1
       THEN [value |-> response.data[2].cell, source |-> "live", requested |-> TRUE,
             cache |-> savePopulationToCache(cache, key, response.data[2].cell, saved)]
       ELSE [value |-> estimate, source |-> "estimate", requested |-> TRUE,
             cache |-> cache]

fetchStatePopulation(cache, stateCode, lookupOk, response, saved) ==
    fetchCached(cache, <<"state", stateCode>>, getStatePopulationEstimate(stateCode),
                lookupOk, response, saved)

fetchCountyPopulation(cache, cacheKey, lookupOk, response, saved) ==
    fetchCached(cache, <<"county", cacheKey>>, estimateCountyPopulation,
                lookupOk, response, saved)

(***************************************************************************)
(* Calls of the library functions on inputs drawn from small sets          *)
(***************************************************************************)
ZipInputs ==
    {<<>>, <<"1", "2", "3", "4", "5">>,
     <<"1", "2", "3", "4", "5", "-", "6", "7", "8", "9">>,
     <<" ", "1", "2", "3", "4">>, <<"A", "B", "C", "D", "E">>}

ConnInputs ==
    {<<>>, <<"J1772">>, <<"J1772COMBO">>, <<"CHADEMO">>, <<"TESLA">>,
     <<"J1772", "J1772COMBO">>}

\* records of the registry
RawRecords ==
    [ext : {1}, state : {"CA"}, zip : ZipInputs, dc : {0, 2}, l2 : {0, 3}, l1 : {0, 1},
     conn : ConnInputs, lat : {0}, lon : {0}]

Populations == {1, 5000, 10000, 100000, 300000}

\* weighted charger counts, in tenths
WeightedTenths == {0, 7, 10, 100, 600, 3000}

VmtValues == {0, 10, 25, 50}

ChargerCounts == {0, 1, 3, 60, 400}

Distances == {0, 4, 15}

\* station rows under two identifiers, each in either state and with either
\* ZIP or none
DetectorRows ==
    {[id |-> <<0, e>>, state |-> st, zip |-> z, lvl |-> "dcfast", ports |-> 1,
      conn |-> <<"TESLA">>, lat |-> 0, lon |-> 0]
     : e \in {1, 2}, st \in StateCodes, z \in {Z94110, Z89109, <<>>}}

\* the station tables over DetectorRows: the identifier is the primary key
DetectorTables ==
    {T \in SUBSET DetectorRows : \A x, y \in T : x.id = y.id => x = y}

\* the requests of the update endpoints: the Authorization header, the
\* secret query parameter and the x-admin-request header each absent,
\* carrying the value of CRON_SECRET, or carrying something else; the cron
\* driver exports GET alone
Requests ==
    {r \in [endpoint : {"refresh-data", "smart-update", "cron/daily-refresh"},
            method : {"GET", "POST"},
            authorization : {"absent", "Bearer CRON_SECRET", "Bearer other"},
            secret : {"absent", "CRON_SECRET", "other"},
            admin : {"absent", "true"}] :
        r.endpoint = "cron/daily-refresh" => r.method = "GET"}

\* isAuthorized of refresh-data and of smart-update, CRON_SECRET being set
isAuthorized(request) ==
    \/ request.authorization = "Bearer CRON_SECRET"
    \/ request.admin = "true"

\* whether the handler of the request goes past its 401 answers and starts
\* the pipeline.  The GET of refresh-data passes the request on to POST; the
\* GET of smart-update passes on a request it builds with the bearer token;
\* the cron driver compares the Authorization header.
admits(request) ==
    CASE request.endpoint = "cron/daily-refresh" ->
            request.authorization = "Bearer CRON_SECRET"
      [] request.endpoint = "refresh-data" ->
            IF request.method = "GET"
            THEN request.secret = "CRON_SECRET" /\ isAuthorized(request)
            ELSE isAuthorized(request)
      [] request.endpoint = "smart-update" ->
            IF request.method = "GET"
            THEN request.secret = "CRON_SECRET"
            ELSE isAuthorized(request)

\* the versions of one station row hasSignificantChanges is given
StationVersions ==
    [id : {<<0, 1>>}, state : StateCodes, zip : {Z94110, Z89109},
     lvl : {"dcfast", "level2"}, ports : {1},
     conn : {<<"J1772">>, <<"J1772", "CHADEMO">>, <<"CHADEMO", "J1772">>},
     lat : {0, 5, 20}, lon : {0, 20}]

\* the station tables of a database: charging_stations, its staging table
\* and the snapshot table, each empty or holding one station in either state
SnapshotDatabases ==
    LET tables == {{}} \cup {{r} : r \in {x \in DetectorRows : x.id = <<0, 1>>
                                                              /\ x.zip = Z94110}}
    IN [charging_stations : tables, charging_stations_staging : tables,
        charging_stations_previous : tables]

\* the two station queries of ChangeDetector.detectChanges(useStaging): the
\* current stations from currentTable, the previous ones from
\* 'charging_stations'
readStations(useStaging, db) ==
    [current |-> IF useStaging THEN db.charging_stations_staging
                 ELSE db.charging_stations,
     previous |-> db.charging_stations]

\* rows of charging_stations for the ZIP sub-pipeline: a station in each of
\* two ZIPs, and a third in a ZIP that lies in two states
ZipStations ==
    {[id |-> <<0, e>>, state |-> IF e = 1 THEN "CA" ELSE "NV",
      zip |-> IF e = 2 THEN Z89109 ELSE Z94110, lvl |-> "level2", ports |-> 1,
      conn |-> <<"J1772">>, lat |-> 0, lon |-> 0] : e \in {1, 2, 3}}

\* what zip_level_data_staging holds when processChangedZips starts: nothing,
\* or the rows an earlier invocation wrote
EarlierZipTables ==
    {{}, ZipRows({s \in ZipStations : s.id \in {<<0, 1>>, <<0, 2>>}})}

\* the names of the functions that read and write the population cache
CacheFunctions == {"fetchStatePopulation", "fetchCountyPopulation"}

\* a function without state is called once, on a fresh process
Fresh == call = NoCall

Normalize ==
    \E raw \in RawRecords :
        call' = [fn |-> "processNRELStation", args |-> raw,
                 result |-> processNRELStation(raw)]

ScoreReadiness ==
    \E w \in WeightedTenths, population \in Populations, vmt \in VmtValues,
       isPortCount \in BOOLEAN :
        call' = [fn |-> "calculateFilteredScore",
                 args |-> [weighted |-> Rat(w, 10), population |-> population,
                           vmt |-> vmt, isPortCount |-> isPortCount],
                 result |-> calculateFilteredScore(Rat(w, 10), population, vmt,
                                                   isPortCount)]

ScoreOpportunity ==
    \E c \in ChargerCounts, population \in Populations, vmt \in VmtValues :
        call' = [fn |-> "calculateOpportunityScore",
                 args |-> [chargerCount |-> c, population |-> population, vmt |-> vmt],
                 result |-> calculateOpportunityScore(c, population, vmt)]

ScoreNeed ==
    \E c \in ChargerCounts, population \in Populations, avg \in Distances :
        call' = [fn |-> "calculateNeedScore",
                 args |-> [chargerCount |-> c, population |-> population,
                           avgDistance |-> avg],
                 result |-> calculateNeedScore(population, c, avg)]

ScoreNeedLocal ==
    \E c \in ChargerCounts, population \in Populations :
        call' = [fn |-> "calculateNeedScoreLocal",
                 args |-> [chargerCount |-> c, population |-> population],
                 result |-> calculateNeedScoreLocal(population, c)]

ScoreWeightedEV ==
    \E w \in WeightedTenths, population \in Populations :
        call' = [fn |-> "calculateWeightedEVScore",
                 args |-> [weighted |-> Rat(w, 10), population |-> population],
                 result |-> calculateWeightedEVScore(Rat(w, 10), population)]

\* detectChanges on a pair of station tables, and on the pair swapped
DetectPair ==
    \E A, B \in DetectorTables :
        call' = [fn |-> "detectChanges",
                 args |-> [current |-> A, previous |-> B],
                 result |-> [added |-> Added(A, B), removed |-> Removed(A, B),
                             modified |-> Modified(A, B),
                             regions |-> detectChanges(A, B),
                             swapped |-> [added |-> Added(B, A),
                                          removed |-> Removed(B, A)]]]

\* hasSignificantChanges on two versions of a station
SignificantPair ==
    \E old, new \in StationVersions :
        call' = [fn |-> "hasSignificantChanges", args |-> [old |-> old, new |-> new],
                 result |-> hasSignificantChanges(old, new)]

\* ChangeDetector.detectChanges(useStaging) against a database
DetectTables ==
    \E useStaging \in BOOLEAN, db \in SnapshotDatabases :
        LET read == readStations(useStaging, db)
        IN call' = [fn |-> "ChangeDetector.detectChanges",
                    args |-> [useStaging |-> useStaging, db |-> db],
                    result |-> detectChanges(read.current, read.previous)]

\* processChangedZips(changedZips, true) and then
\* calculateZipCompletion(changedZips, true), as performIncrementalUpdate
\* calls them
ProcessZips ==
    \E stations \in SUBSET ZipStations, table \in EarlierZipTables,
       changedZips \in (SUBSET {Z94110, Z89109}) \ {{}}, queryOk \in BOOLEAN :
       \E zipArray \in Perms(changedZips) :
          LET batches == Batches(zipArray, MaxBatchSize)
          IN \E outcomes \in [1..Len(batches) -> BatchOutcomes] :
             LET res == processChangedZipsFrom(table, stations, batches, outcomes, 1)
             IN call' = [fn |-> "processChangedZips",
                         args |-> [stations |-> stations, table |-> table,
                                   changedZips |-> changedZips, batches |-> batches,
                                   outcomes |-> outcomes, queryOk |-> queryOk],
                         result |-> [table |-> res.table, processed |-> res.processed,
                                     zip_completion |->
                                         calculateZipCompletion(changedZips, res.table,
                                                                queryOk)]]

\* a request arrives at an update endpoint: it is answered 401 or the
\* pipeline starts
Authorize ==
    \E request \in Requests :
        call' = [fn |-> "isAuthorized", args |-> request,
                 result |-> [runs |-> admits(request),
                             status |-> IF admits(request) THEN 0 ELSE 401]]

FetchStatePopulationCall ==
    \E lookupOk, saved \in BOOLEAN, response \in CensusResponses :
        call.fn \in CacheFunctions \cup {"none"} /\
        LET r == fetchStatePopulation(popCache, "CA", lookupOk, response, saved)
        IN /\ call' = [fn |-> "fetchStatePopulation",
                       args |-> [key |-> <<"state", "CA">>, response |-> response,
                                 estimate |-> getStatePopulationEstimate("CA"),
                                 lookupOk |-> lookupOk, saved |-> saved],
                       result |-> [value |-> r.value, source |-> r.source,
                                   requested |-> r.requested]]
           /\ popCache' = r.cache

FetchCountyPopulationCall ==
    \E lookupOk, saved \in BOOLEAN, response \in CensusResponses :
        call.fn \in CacheFunctions \cup {"none"} /\
        LET r == fetchCountyPopulation(popCache, "06-075", lookupOk, response, saved)
        IN /\ call' = [fn |-> "fetchCountyPopulation",
                       args |-> [key |-> <<"county", "06-075">>, response |-> response,
                                 estimate |-> estimateCountyPopulation,
                                 lookupOk |-> lookupOk, saved |-> saved],
                       result |-> [value |-> r.value, source |-> r.source,
                                   requested |-> r.requested]]
           /\ popCache' = r.cache

\* thirty days pass since the row of a key was fetched
Expire ==
    \E k \in CacheKeys :
        /\ call.fn \in CacheFunctions \cup {"none"}
        /\ popCache[k].present /\ ~popCache[k].expired
        /\ popCache' = [popCache EXCEPT ![k].expired = TRUE]
        /\ call' = [fn |-> "none", args |-> k, result |-> <<>>]

NextFunctions ==
    /\ \/ Fresh /\ Normalize /\ UNCHANGED popCache
       \/ Fresh /\ ScoreReadiness /\ UNCHANGED popCache
       \/ Fresh /\ ScoreOpportunity /\ UNCHANGED popCache
       \/ Fresh /\ ScoreNeed /\ UNCHANGED popCache
       \/ Fresh /\ ScoreNeedLocal /\ UNCHANGED popCache
       \/ Fresh /\ ScoreWeightedEV /\ UNCHANGED popCache
       \/ Fresh /\ DetectPair /\ UNCHANGED popCache
       \/ Fresh /\ Authorize /\ UNCHANGED popCache
       \/ Fresh /\ SignificantPair /\ UNCHANGED popCache
       \/ Fresh /\ DetectTables /\ UNCHANGED popCache
       \/ Fresh /\ ProcessZips /\ UNCHANGED popCache
       \/ FetchStatePopulationCall
       \/ FetchCountyPopulationCall
       \/ Expire
    /\ UNCHANGED pipeline
    /\ UNCHANGED limiter

\* the library's functions are called against an empty database
InitFunctions ==
    /\ InitLimiter
    /\ call = NoCall
    /\ popCache = [k \in CacheKeys |-> NoEntry]
    /\ serving = EmptyTables
    /\ staging = EmptyTables
    /\ gen = 0
    /\ procs = [p \in Procs |-> IdleProc]
    /\ promoteKind = "copy"
    /\ started = 0
    /\ hist = InitialHist

SpecFunctions == InitFunctions /\ [][NextFunctions]_vars

(***************************************************************************)
(* The in-memory rate limiter                                              *)
(***************************************************************************)
\* rateLimit admitting a call when the count equals the limit
rateLimitOffByOne(map, id, limit, duration, t) ==
    LET existing == map[id]
    IN IF ~existing.present \/ t > existing.resetTime
       THEN [map |-> [map EXCEPT ![id] = [present |-> TRUE, count |-> 1,
                                          resetTime |-> t + duration]],
             result |-> [success |-> TRUE, limit |-> limit, remaining |-> limit - 1,
                         resetTime |-> t + duration]]
       ELSE IF existing.count > limit
       THEN [map |-> map,
             result |-> [success |-> FALSE, limit |-> limit, remaining |-> 0,
                         resetTime |-> existing.resetTime]]
       ELSE [map |-> [map EXCEPT ![id].count = @ + 1],
             result |-> [success |-> TRUE, limit |-> limit,
                         remaining |-> limit - (existing.count + 1),
                         resetTime |-> existing.resetTime]]

\* rateLimit({id, limit, duration}) at instant t: the map after the call and
\* the result
rateLimit(map, id, limit, duration, t) ==
    LET existing == map[id]
    IN IF ~existing.present \/ t > existing.resetTime
       THEN [map |-> [map EXCEPT ![id] = [present |-> TRUE, count |-> 1,
                                          resetTime |-> t + duration]],
             result |-> [success |-> TRUE, limit |-> limit, remaining |-> limit - 1,
                         resetTime |-> t + duration]]
       ELSE IF existing.count >= limit
       THEN [map |-> map,
             result |-> [success |-> FALSE, limit |-> limit, remaining |-> 0,
                         resetTime |-> existing.resetTime]]
       ELSE [map |-> [map EXCEPT ![id].count = @ + 1],
             result |-> [success |-> TRUE, limit |-> limit,
                         remaining |-> limit - (existing.count + 1),
                         resetTime |-> existing.resetTime]]

\* a request of a client reaches a route, which calls rateLimit
RateLimitCall ==
    /\ Len(results) < MaxCalls
    /\ \E id \in ClientIds :
          LET r == rateLimit(rateLimitMap, id, limitOf(id), Duration, now)
          IN /\ rateLimitMap' = r.map
             /\ results' = Append(results, [id |-> id, at |-> now,
                                            success |-> r.result.success,
                                            remaining |-> r.result.remaining,
                                            resetTime |-> r.result.resetTime])
    /\ UNCHANGED now

\* the clock advances
Tick ==
    /\ now < MaxNow
    /\ now' = now + 1
    /\ UNCHANGED <<rateLimitMap, results>>

\* the setInterval callback: the entries whose window has passed are deleted
Cleanup ==
    /\ \E id \in ClientIds : rateLimitMap[id].present /\ now > rateLimitMap[id].resetTime
    /\ rateLimitMap' = [id \in ClientIds |->
                           IF rateLimitMap[id].present /\ now > rateLimitMap[id].resetTime
                           THEN NoWindow ELSE rateLimitMap[id]]
    /\ UNCHANGED <<now, results>>

NextRateLimit ==
    /\ \/ RateLimitCall
       \/ Tick
       \/ Cleanup
    /\ UNCHANGED pipeline
    /\ UNCHANGED <<call, popCache>>

SpecRateLimit == InitFunctions /\ [][NextRateLimit]_vars

(***************************************************************************)
(* Properties                                                              *)
(***************************************************************************)
InLog(r, e) == \E i \in 1..Len(r.log) : r.log[i] = e

\* the request was answered with an error: 500 of a handler or of the
\* aborted cron, 207 of a cron whose smart aggregation step failed
EndedInError(r) == r.pc = "done" /\ r.status \in {500, 207}

\* C1: a cycle that ends in an error has not added, removed or changed a
\* row of a serving table at any of its steps.
C1_ErrorCycleLeavesServing ==
    \A p \in Procs : EndedInError(procs[p]) => ~procs[p].wrote

\* C2: a promotion call is made only after the ZIP sub-pipeline of the same
\* cycle has reported complete; a cycle whose ZIP processing is incomplete
\* or has not run makes no promotion call.
C2_PromotionAfterZipComplete ==
    \A p \in Procs : \A i \in 1..Len(procs[p].log) :
        procs[p].log[i] \in {"promote", "promote-failed"}
            => \E j \in 1..(i - 1) : procs[p].log[j] = "zips-complete"

\* C3: after a successful promotion every serving aggregate row carries the
\* counts obtained by grouping the station set promoted with it.
C3_PromotedAggregatesMatchStations ==
    [][PromoteStep =>
          /\ serving'.states \subseteq StateRows(serving'.stations)
          /\ serving'.zips \subseteq ZipRows(serving'.stations)]_vars

\* C4: a cycle takes a step after ingestion only if it inserted at least one
\* station and the staging station count was more than half the serving
\* station count.
C4_IngestionGate ==
    \A p \in Procs :
        (Len(procs[p].log) >= 2 /\ procs[p].log[1] = "ingest")
            => /\ procs[p].inserted > 0
               /\ 2 * procs[p].stagingAtInsert > procs[p].servingAtInsert

\* C5: two cycles never run at the same time.
C5_OneCycleAtATime ==
    Cardinality({p \in Procs : procs[p].pc \notin {"idle", "done"}}) <= 1

\* C6: once a cycle has ended with partial ZIP completion, and until a
\* promotion, no step removes a ZIP code from ZIP staging and no request
\* clears staging or ingests again.
C6_PartialCycleResumes ==
    [][(hist.pending /\ ~PromoteStep) =>
          /\ {r.zip_code : r \in staging.zips} \subseteq {r.zip_code : r \in staging'.zips}
          /\ \A p \in Procs : procs'[p].pc = procs[p].pc
                              \/ procs'[p].pc \notin {"r_clear", "r_insert", "r_state"}]_vars

Rank(e) ==
    CASE e = "ingest" -> 1
      [] e = "detect" -> 2
      [] e = "aggregate" -> 3
      [] e \in {"zips-complete", "zips-partial"} -> 4
      [] OTHER -> 5

\* C7: the steps of a scheduler-triggered cycle run in the order ingest,
\* detect, aggregate, ZIP sub-pipeline, promote.
C7_CycleOrder ==
    \A p \in Procs : procs[p].kind = "cron" =>
        \A i, j \in 1..Len(procs[p].log) :
            i < j => Rank(procs[p].log[i]) <= Rank(procs[p].log[j])

\* the detection of process p has reported zero changes and p was answered
NoChangeAnswer(r) ==
    /\ r.pc = "done"
    /\ r.log # <<>> /\ r.log[Len(r.log)] = "detect"
    /\ r.changes.total_changes = 0

\* C8: when change detection reports zero changes, the incremental update
\* writes no aggregate table, makes no promotion call and answers success
\* with the no-changes message; the step leaves every table as it was.
C8_NoChangesNoWrites ==
    /\ [](\A p \in Procs : NoChangeAnswer(procs[p]) =>
            /\ procs[p].status = 200
            /\ procs[p].message = "No changes detected - aggregation skipped"
            /\ ~procs[p].swap_performed
            /\ procs[p].states_processed = 0
            /\ procs[p].counties_processed = 0
            /\ procs[p].zips_processed = 0)
    /\ [][\A p \in Procs :
            (procs[p].pc = "s_previous" /\ procs'[p].pc # "s_previous"
             /\ InLog(procs'[p], "detect") /\ procs'[p].changes.total_changes = 0)
            => /\ NoChangeAnswer(procs'[p])
               /\ serving' = serving /\ staging' = staging]_vars

\* a smart-update request on staging tables answered after detecting no
\* change between non-empty station tables
C8_Witness ==
    \E p \in Procs : /\ NoChangeAnswer(procs[p]) /\ procs[p].kind = "smart"
                     /\ procs[p].useStaging /\ serving.stations # {}
                     /\ procs[p].message = "No changes detected - aggregation skipped"

\* C9: a second run of the cycle with the same input and the same upstream
\* payload, made right after a run whose ZIP sub-pipeline reported complete
\* and whose promotion succeeded, leaves every serving table with the
\* contents it had after the first run.
C9_SecondRunSameServing ==
    [][\A p \in Finished :
          (procs'[p].status = 200 /\ hist.goodAge = 1
           /\ Input(procs'[p]) = hist.goodInput)
          => Content(serving') = hist.goodContent]_vars

\* C10: promotion is attempted if and only if the ZIP sub-pipeline returned
\* complete and the state and the county aggregation counts are above zero.
C10_PromotionIffCompleteAndCounts ==
    \A p \in Procs :
        (procs[p].pc = "done" /\ procs[p].kind = "smart" /\ InLog(procs[p], "detect"))
        => ((InLog(procs[p], "promote") \/ InLog(procs[p], "promote-failed"))
            <=> (/\ procs[p].zip_completion.is_complete
                 /\ procs[p].states_processed > 0
                 /\ procs[p].counties_processed > 0))

\* a step that rewrote a serving aggregate table
ServingAggregateWritten ==
    \/ serving'.states # serving.states
    \/ serving'.counties # serving.counties
    \/ serving'.zips # serving.zips

\* C11: the aggregators delete from and insert into staging aggregate tables
\* only: a serving aggregate table changes in no step but a promotion.
C11_AggregatorsWriteStagingOnly ==
    [][ServingAggregateWritten => PromoteStep]_vars

\* the rows of every aggregate table, staging and serving
AggregateRows ==
    staging.states \cup staging.counties \cup staging.zips
    \cup serving.states \cup serving.counties \cup serving.zips

\* C12: every aggregate row has dcfast_count + level2_count + level1_count
\* equal to charger_count.
C12_LevelCountsSumToTotal ==
    \A r \in AggregateRows :
        r.dcfast_count + r.level2_count + r.level1_count = r.charger_count

\* the ZIP aggregator and the state aggregator have written rows that count
\* stations of two levels
C12_Witness ==
    /\ \E p \in Procs : procs[p].zips_processed > 0 /\ procs[p].states_processed > 0
    /\ \E r \in staging.zips \cup serving.zips : r.dcfast_count > 0
    /\ \E r \in staging.zips \cup serving.zips : r.level2_count > 0

\* C19: the staging station table is empty when the insert of an ingestion
\* starts, so that after a successful insert it holds exactly the processed
\* records of the payload of this request.
C19_StagingEmptiedBeforeInsert ==
    [][\A p \in Procs :
          (procs[p].pc = "r_insert" /\ procs'[p].pc = "r_state")
          => /\ staging.stations = {}
             /\ Content(staging').stations
                  = Content([staging EXCEPT
                               !.stations = StationRows(procs[p].payload, 0)]).stations]_vars

\* C13: every scoring function returns an integer between 0 and 100 for a
\* population of at least 1 and non-negative charger counts.
C13_ScoresAreIntegersInRange ==
    call.fn \in {"calculateFilteredScore", "calculateOpportunityScore",
                 "calculateNeedScore", "calculateNeedScoreLocal"}
        => /\ call.result.d = 1
           /\ 0 <= call.result.n /\ call.result.n <= 100

\* C14: the ev_infrastructure_score the aggregators store is the readiness
\* score of the weighted charger count and the population, without VMT and
\* with the station thresholds 60/40/25/15/8.
C14_StoredScoreIsReadiness ==
    call.fn = "calculateWeightedEVScore"
        => call.result = calculateFilteredScore(call.args.weighted,
                                                call.args.population, 0, FALSE)

C16_AddedIsRemovedOfSwap ==
    call.fn = "detectChanges" => call.result.added = call.result.swapped.removed

\* a detection where a station was added, and another is in both tables
\* with different contents
C16_Witness ==
    /\ call.fn = "detectChanges"
    /\ call.result.added # {}
    /\ call.result.modified # {}

\* C17: the normalizer classifies a record as dcfast iff its DC-fast port
\* count is above zero or its connector types contain J1772COMBO, CHADEMO or
\* TESLA; otherwise as level2 iff its level-2 port count is above zero;
\* otherwise as level1.
C17_NormalizerLevel ==
    call.fn = "processNRELStation"
        => LET raw == call.args
               fast == \/ raw.dc > 0
                       \/ \E t \in SeqToSet(raw.conn) :
                              t \in {"J1772COMBO", "CHADEMO", "TESLA"}
           IN  call.result.lvl = IF fast THEN "dcfast"
                                 ELSE IF raw.l2 > 0 THEN "level2"
                                 ELSE "level1"

\* C18: the ZIP of every station the normalizer hands to the insert is five
\* digits or absent; a raw ZIP+4 is stored as its first five digits.
C18_StoredZipFiveDigits ==
    call.fn = "processNRELStation"
        => LET z == call.result.zip
               digits == {"0", "1", "2", "3", "4", "5", "6", "7", "8", "9"}
           IN  /\ z = <<>> \/ (Len(z) = 5 /\ \A i \in 1..5 : z[i] \in digits)
               /\ Len(call.args.zip) = 10 => z = SubSeq(call.args.zip, 1, 5)

\* C20: when the live population fetch of a state or county fails (no 2xx
\* answer, a timeout, a body that does not parse, no data row, or a data row
\* without a positive population), the lookup returns the estimate and leaves
\* the population cache as it was.
C20_FailedFetchLeavesCache ==
    [][(/\ call'.fn \in CacheFunctions
        /\ call'.result.requested
        /\ LET response == call'.args.response
           IN  \/ response.kind # "ok"
               \/ Len(response.data) <= 1
               \/ response.data[2].cell <= 0)
       => /\ call'.result.value = call'.args.estimate
          /\ popCache' = popCache]_vars

\* C21: after a successful live population fetch for a key, a lookup of the
\* key within the following thirty days is answered from the cache without
\* an outbound request, also when the key's earlier entry had expired before
\* the fetch.  (The fetch returned a population, its upsert succeeded, and
\* the cache query of the lookup succeeds.)
C21_LookupAfterLiveFetchIsCached ==
    [][(/\ call.fn \in CacheFunctions
        /\ call.result.source = "live" /\ call.result.value > 0
        /\ call.args.saved
        /\ call'.fn \in CacheFunctions
        /\ call'.args.key = call.args.key
        /\ call'.args.lookupOk)
       => ~call'.result.requested]_vars

\* C22: the scheduler trigger endpoint answers 200 or 207, and a 5xx status
\* only when the storage layer failed (or a cycle was in progress): a cycle
\* that ended because the station registry could not be fetched is not
\* answered with a 5xx status.
C22_CronStatus ==
    \A p \in Procs :
        (procs[p].kind = "cron" /\ procs[p].pc = "done")
            => \/ procs[p].status \in {200, 207}
               \/ procs[p].status >= 500 /\ ~InLog(procs[p], "registry-failed")

\* C23: the refresh and smart-update pipelines run only for requests that
\* present the value of CRON_SECRET, as bearer token or as secret query
\* parameter; a request that does not present it is answered 401 and starts
\* no pipeline.
C23_PipelinesNeedSecret ==
    call.fn = "isAuthorized"
        => LET presents == \/ call.args.authorization = "Bearer CRON_SECRET"
                           \/ call.args.secret = "CRON_SECRET"
           IN  /\ call.result.runs => presents
               /\ ~presents => (call.result.status = 401 /\ ~call.result.runs)

\* C24: detectChanges puts the state of every added, removed or modified
\* station into the affected states and its ZIP, when present, into the
\* affected ZIPs; for a modified station whose state or ZIP changed, the
\* previous state and the previous ZIP as well; total_changes is the number
\* of added plus removed plus modified stations.
C24_AffectedRegions ==
    call.fn = "detectChanges"
        => LET r == call.result
               changed == r.added \cup r.removed \cup r.modified
           IN  /\ \A s \in changed :
                     /\ s.state \in r.regions.states
                     /\ s.zip # <<>> => s.zip \in r.regions.zips
               /\ \A s \in r.modified :
                     \A o \in {x \in call.args.previous : x.id = s.id} :
                        (o.state # s.state \/ o.zip # s.zip)
                            => /\ o.state \in r.regions.states
                               /\ o.zip # <<>> => o.zip \in r.regions.zips
               /\ r.regions.total_changes
                    = Cardinality(r.added) + Cardinality(r.removed)
                      + Cardinality(r.modified)

\* a detection with an added or removed station and a modified one that
\* moved to another state and another ZIP
C24_Witness ==
    /\ call.fn = "detectChanges"
    /\ call.result.added \cup call.result.removed # {}
    /\ \E s \in call.result.modified :
          \E o \in call.args.previous :
             /\ o.id = s.id /\ o.state # s.state
             /\ o.zip # s.zip /\ o.zip # <<>> /\ s.zip # <<>>
    /\ call.result.regions.total_changes = 2

\* C25: whenever the affected-ZIP set is non-empty after detection, the
\* affected-county set holds the county of every affected ZIP; it is then
\* not empty.
C25_AffectedCounties ==
    (call.fn = "detectChanges" /\ call.result.regions.zips # {})
        => call.result.regions.counties # {}

\* C26: a station present in both sets is classified as modified iff its
\* level, its connector types compared as a multiset, its state or its ZIP
\* differ, or its latitude or longitude differ by more than 0.001 degrees.
C26_ModifiedIffSignificant ==
    call.fn = "hasSignificantChanges"
        => LET old == call.args.old
               new == call.args.new
               occurrences(c, t) == Cardinality({i \in 1..Len(c) : c[i] = t})
               sameMultiset ==
                   \A t \in SeqToSet(old.conn) \cup SeqToSet(new.conn) :
                       occurrences(old.conn, t) = occurrences(new.conn, t)
           IN  call.result <=> \/ old.lvl # new.lvl
                               \/ ~sameMultiset
                               \/ old.state # new.state
                               \/ old.zip # new.zip
                               \/ Abs(old.lat - new.lat) > 10
                               \/ Abs(old.lon - new.lon) > 10

\* C29: detectChanges called with useStaging = false compares the production
\* station table with charging_stations_previous and reports a change
\* whenever the two differ.
C29_ComparesWithPreviousSnapshot ==
    (/\ call.fn = "ChangeDetector.detectChanges"
     /\ ~call.args.useStaging
     /\ call.args.db.charging_stations # call.args.db.charging_stations_previous)
        => call.result.total_changes > 0

\* C27: if the processing of one ZIP chunk fails, the remaining chunks are
\* still processed, the ZIPs of the failed chunk are not counted as
\* completed, and the sub-pipeline reports partial rather than complete.
C27_FailedChunkMeansPartial ==
    (/\ call.fn = "processChangedZips"
     /\ \E i \in DOMAIN call.args.outcomes : call.args.outcomes[i] # "ok")
        => LET a == call.args
               failed == UNION {SeqToSet(a.batches[i]) :
                                  i \in {j \in DOMAIN a.outcomes : a.outcomes[j] # "ok"}}
           IN  /\ \A i \in DOMAIN a.outcomes :
                     a.outcomes[i] = "ok"
                        => ZipRows(BatchStations(a.stations, a.batches[i]))
                              \subseteq call.result.table
               /\ call.result.zip_completion.completed
                     <= Cardinality(a.changedZips \ failed)
               /\ ~call.result.zip_completion.is_complete

\* C28: after all ZIP chunks of a cycle have been processed without error,
\* completion is 1.0 and the sub-pipeline returns complete, for every
\* affected-ZIP set; the completed count is the number of distinct affected
\* ZIPs present in ZIP staging.
C28_AllChunksDoneMeansComplete ==
    (/\ call.fn = "processChangedZips"
     /\ \A i \in DOMAIN call.args.outcomes : call.args.outcomes[i] = "ok"
     /\ call.args.queryOk)
        => LET c == call.result.zip_completion
           IN  /\ c.is_complete
               /\ c.completed = c.total_affected
               /\ c.completed
                     = Cardinality({z \in call.args.changedZips :
                                      \E r \in call.result.table : r.zip_code = z})

\* C30: for every id, at most `limit` calls succeed within one window (from
\* the window's first call until its resetTime), the reported remaining
\* count is never negative, and the first call after resetTime succeeds and
\* opens a new window.
C30_RateLimitWindow ==
    /\ \A i \in DOMAIN results :
          /\ results[i].remaining >= 0
          /\ Cardinality({j \in DOMAIN results :
                            /\ results[j].id = results[i].id
                            /\ results[j].resetTime = results[i].resetTime
                            /\ results[j].success}) <= limitOf(results[i].id)
    /\ \A i, j \in DOMAIN results :
          (/\ j < i
           /\ results[j].id = results[i].id
           /\ \A k \in (j + 1)..(i - 1) : results[k].id # results[i].id
           /\ results[i].at > results[j].resetTime)
              => /\ results[i].success
                 /\ results[i].resetTime = results[i].at + Duration
                 /\ results[i].remaining = limitOf(results[i].id) - 1

\* a client was refused within a window and admitted again after its
\* resetTime
C30_Witness ==
    \E i, j \in DOMAIN results :
        /\ i < j
        /\ results[i].id = results[j].id
        /\ ~results[i].success
        /\ results[j].success
        /\ results[j].at > results[i].resetTime

====
